---------------------------- MODULE Spec2Model ----------------------------
(***************************************************************************)
(* A model of cocotb_test/simulator.py: the backend command builders, the  *)
(* rebuild decision, Simulator.run / Simulator.execute, the signal handler *)
(* Simulator.exit_gracefully and the scan of the results file.             *)
(*                                                                         *)
(* The specifications of the module:                                       *)
(*   Spec         the orchestration machine: simulators are constructed    *)
(*                and run one after another in one Python process,         *)
(*                children are spawned, write output and exit, SIGINT and  *)
(*                SIGTERM arrive at any point and are handled by the       *)
(*                installed handler;                                       *)
(*   SpecLong     the same machine with room for a second simulator and a  *)
(*                second signal;                                           *)
(*   SpecLive     the machine of Spec under the interpreter's fairness;    *)
(*   SpecBuild    construction and build_command of every backend, over a  *)
(*                bounded set of requests and file-system snapshots;       *)
(*   SpecCollect  the tail of Simulator.run over a bounded set of results  *)
(*                files;                                                   *)
(*   SpecOutdated Simulator.outdated called while dependencies are touched *)
(*                and the output is recreated;                             *)
(*   SpecFacade   the facade run() under every value of the SIM variable;  *)
(*   SpecEnv      the environment handed to the first child, under every   *)
(*                bounded process environment and request;                 *)
(*   SpecScript   the run script and run command of Questa.                *)
(***************************************************************************)
EXTENDS Integers, Sequences, FiniteSets, TLC

(***************************************************************************)
(* Bounds of the model.                                                    *)
(***************************************************************************)
\* number of Verilog sources a request of SpecBuild may name
MaxVerilog == 2
\* modification times are drawn from 1..MaxTime
MaxTime == 2
\* simulators constructed one after another in the same Python process, and
\* signals delivered to it over a behaviour: under Spec, and under SpecLong
MaxSims == 1
MaxSignals == 1
LongSims == 2
LongSignals == 2
\* lines a child may write to its combined stdout/stderr pipe
MaxLines == 1
\* test suites of a report, test cases of a suite, failures of a case
MaxSuites == 2
MaxCases == 2
MaxFailures == 1
\* dependencies handed to a call of outdated in SpecOutdated
MaxDeps == 2
\* simulation_args and plus_args of a request in SpecScript
MaxArgs == 2

(***************************************************************************)
(* Program constants.                                                      *)
(***************************************************************************)
SIGINT == 2
SIGTERM == 15
Signals == {SIGINT, SIGTERM}

Backends ==
    {"icarus", "questa", "ius", "xcelium", "vcs", "ghdl", "riviera", "verilator"}

\* paths the requests draw their sources from
VerilogNames == <<"a.v", "b.v", "c.v", "d.v">>
VhdlNames == <<"e.vhd">>
toplevel == "top"
sim_dir == "sim_build"
lib_dir == "cocotb/libs"

(***************************************************************************)
(* The file system as the rebuild decision sees it: a file exists or not   *)
(* and has a modification time.                                            *)
(***************************************************************************)
Absent == [exists |-> FALSE, mtime |-> 0]
File(t) == [exists |-> TRUE, mtime |-> t]
Files == {Absent} \cup {File(t) : t \in 1..MaxTime}

(***************************************************************************)
(* Simulator.outdated: True when the output is missing; otherwise the      *)
(* maximum dependency mtime (starting from 0) is compared, strictly, with  *)
(* the output's. os.path.getmtime of a missing dependency raises OSError,  *)
(* but only when the loop is reached.                                      *)
(***************************************************************************)
\* a loop that keeps the last dependency's time instead of the greatest:
\* C14 does not hold of it
RECURSIVE dep_mtime_Last(_, _)
dep_mtime_Last(dependencies, acc) ==
    IF dependencies = <<>> THEN acc
    ELSE dep_mtime_Last(Tail(dependencies), Head(dependencies).mtime)

RECURSIVE dep_mtime(_, _)
dep_mtime(dependencies, acc) ==
    IF dependencies = <<>> THEN acc
    ELSE dep_mtime(Tail(dependencies),
                   IF Head(dependencies).mtime > acc
                   THEN Head(dependencies).mtime ELSE acc)

\* a comparison that is not strict: C12 does not hold of it
outdated_NotStrict(output, dependencies) ==
    IF ~output.exists THEN [raised |-> FALSE, value |-> TRUE]
    ELSE IF \E k \in DOMAIN dependencies : ~dependencies[k].exists
    THEN [raised |-> TRUE, value |-> FALSE]
    ELSE [raised |-> FALSE, value |-> dep_mtime(dependencies, 0) >= output.mtime]

outdated(output, dependencies) ==
    IF ~output.exists THEN [raised |-> FALSE, value |-> TRUE]
    ELSE IF \E k \in DOMAIN dependencies : ~dependencies[k].exists
    THEN [raised |-> TRUE, value |-> FALSE]
    ELSE [raised |-> FALSE, value |-> dep_mtime(dependencies, 0) > output.mtime]

\* no call of outdated yet
NotCalled == [raised |-> FALSE, value |-> FALSE]

(***************************************************************************)
(* Requests. A request is the keyword arguments of a simulator together    *)
(* with the file-system snapshot build_command reads: the backend's        *)
(* compiled artifact (out), the sources' files (mt), whether Questa's      *)
(* library directory exists (libdir) and whether find_executable finds     *)
(* verilator (verilator_exec). The optional argument lists (defines,       *)
(* includes, compile_args, simulation_args, plus_args) are left at their   *)
(* default, the empty list.                                                *)
(***************************************************************************)
Prefixes(names, n) == {SubSeq(names, 1, k) : k \in 0..n}
SeqRange(s) == {s[k] : k \in DOMAIN s}

SourceLists ==
    Prefixes(VerilogNames, MaxVerilog) \X Prefixes(VhdlNames, Len(VhdlNames))

\* the fields only some backends read; elsewhere they keep one value
Options(b) ==
    { o \in [toplevel_lang : IF b \in {"questa", "riviera"}
                             THEN {"verilog", "vhdl"} ELSE {"verilog"},
             libdir : IF b = "questa" THEN BOOLEAN ELSE {TRUE},
             verilator_exec : IF b = "verilator" THEN BOOLEAN ELSE {TRUE}] : TRUE }

Request(b, vs, hs, flags, o, m, opt) ==
    [backend |-> b, verilog_sources |-> vs, vhdl_sources |-> hs,
     force_compile |-> flags[1], compile_only |-> flags[2], gui |-> flags[3],
     toplevel_lang |-> opt.toplevel_lang, libdir |-> opt.libdir,
     verilator_exec |-> opt.verilator_exec, out |-> o, mt |-> m]

RequestsOf(b, outs, stamps) ==
    UNION { { Request(b, sl[1], sl[2], flags, o, m, opt) :
                flags \in BOOLEAN \X BOOLEAN \X BOOLEAN,
                o \in outs,
                m \in [SeqRange(sl[1]) \cup SeqRange(sl[2]) -> stamps],
                opt \in Options(b) } : sl \in SourceLists }

\* Questa's artifact (<library>/_info) lies inside the library directory
Consistent(r) == r.backend = "questa" /\ r.out.exists => r.libdir

Requests ==
    UNION { { r \in RequestsOf(b, Files, Files) : Consistent(r) } : b \in Backends }

Deps(r, sources) == [k \in DOMAIN sources |-> r.mt[sources[k]]]

(***************************************************************************)
(* Entries of a command sequence. The code appends argument vectors        *)
(* (lists) and, in one place, a bare string. role records which variable   *)
(* of the source produced the entry: a compile/elaborate command, the      *)
(* simulation run, a script doing both, or neither.                        *)
(***************************************************************************)
Argv(role, argv) == [list |-> TRUE, role |-> role, argv |-> argv]
Str(s) == [list |-> FALSE, role |-> "none", argv |-> <<s>>]

Built(cmds, skip) == [raised |-> "none", cmds |-> cmds, skip |-> skip]
Raised(e) == [raised |-> e, cmds |-> <<>>, skip |-> FALSE]

\* ---- Icarus
Icarus_sim_file == "sim_build/top.vvp"

Icarus_compile_command(r) ==
    Argv("compile",
         <<"iverilog", "-o", Icarus_sim_file, "-D", "COCOTB_SIM=1", "-s", toplevel, "-g2012">>
         \o r.verilog_sources)

Icarus_run_command(r) ==
    Argv("run", <<"vvp", "-M", lib_dir, "-m", "libcocotbvpi_icarus", Icarus_sim_file>>)

Icarus_build_command(r) ==
    LET o == outdated(r.out, Deps(r, r.verilog_sources))
        compile == o.value \/ r.force_compile
    IN  IF o.raised THEN Raised("OSError")
        ELSE Built((IF compile THEN <<Icarus_compile_command(r)>> ELSE <<>>)
                   \o (IF ~r.compile_only THEN <<Icarus_run_command(r)>> ELSE <<>>),
                   ~compile)

\* ---- Questa
Questa_prefix(role, script) == Argv(role, <<"vsim", "-c", "-do", script>>)

Questa_build_command(r) ==
    LET o == outdated(r.out, Deps(r, r.verilog_sources \o r.vhdl_sources))
        compile == o.value \/ r.force_compile
        compile_cmds ==
            (IF r.libdir THEN <<Questa_prefix("compile", "vdel -lib top -all; quit;")>>
             ELSE <<>>)
            \o <<Questa_prefix("compile", "vlib top; quit;"),
                 Questa_prefix("compile", "source sim_build/compile.do; quit;")>>
        run_cmd == Argv("run", <<"vsim", IF r.gui THEN "-gui" ELSE "-c", "-do",
                                 "source sim_build/runsim.do">>)
    IN  IF o.raised THEN Raised("OSError")
        ELSE Built((IF compile THEN compile_cmds ELSE <<>>)
                   \o (IF ~r.compile_only THEN <<run_cmd>> ELSE <<>>),
                   ~compile)

\* ---- Ius and Xcelium (the same code but for the program's name)
Cadence_build_command(r, prog) ==
    LET o == outdated(r.out, Deps(r, r.verilog_sources \o r.vhdl_sources))
        compile == o.value \/ r.force_compile
        cmd_elab == Argv("compile",
                         <<prog, "-64", "-elaborate", "-v93", "-define", "COCOTB_SIM=1",
                           "-loadvpi", "libcocotbvpi_ius:vlog_startup_routines_bootstrap",
                           "-plinowarn", "-access", "+rwc", "-top", toplevel>>
                         \o r.verilog_sources \o r.vhdl_sources)
        cmd_run == Argv("run", <<prog, "-64", "-R", IF r.gui THEN "-gui" ELSE "">>)
    IN  IF o.raised THEN Raised("OSError")
        ELSE Built((IF compile THEN <<cmd_elab>> ELSE <<>>)
                   \o (IF ~r.compile_only THEN <<cmd_run>> ELSE <<>>),
                   ~compile)

Ius_build_command(r) == Cadence_build_command(r, "irun")

Xcelium_build_command(r) == Cadence_build_command(r, "xrun")

\* ---- Vcs: no rebuild decision; with gui the string "-gui" is appended to
\* the command list itself
Vcs_build_command(r) ==
    LET cmd_build == Argv("compile",
                          <<"vcs", "-full64", "-debug", "+vpi", "-P", "pli.tab", "-sverilog",
                            "+define+COCOTB_SIM=1", "-load", "libcocotbvpi_vcs">>
                          \o r.verilog_sources)
        cmd_run == Argv("run", <<"sim_build/simv", "+define+COCOTB_SIM=1">>)
    IN  Built(<<cmd_build>>
              \o (IF ~r.compile_only THEN <<cmd_run>> ELSE <<>>)
              \o (IF r.gui THEN <<Str("-gui")>> ELSE <<>>),
              FALSE)

\* ---- Ghdl: no rebuild decision; one import per VHDL source, then elaborate
Ghdl_build_command(r) ==
    LET imports == [k \in DOMAIN r.vhdl_sources |->
                       Argv("compile", <<"ghdl", "-i", r.vhdl_sources[k]>>)]
        cmd_elaborate == Argv("compile", <<"ghdl", "-m", toplevel>>)
        cmd_run == Argv("run", <<"ghdl", "-r", toplevel, "--vpi=libcocotbvpi_ghdl">>)
    IN  Built(imports \o <<cmd_elaborate>>
              \o (IF ~r.compile_only THEN <<cmd_run>> ELSE <<>>),
              FALSE)

\* ---- Riviera: one vsimsa command running a generated script; the script's
\* lines decide what the command does
Riviera_do_script(r, compile) ==
    <<"onerror">>
    \o (IF compile
        THEN <<"alib">>
             \o (IF r.vhdl_sources # <<>> THEN <<"acom">> ELSE <<>>)
             \o (IF r.verilog_sources # <<>> THEN <<"alog">> ELSE <<>>)
        ELSE <<>>)
    \o (IF ~r.compile_only THEN <<"asim", "run -all", "exit">> ELSE <<>>)

Riviera_role(script) ==
    LET c == "alib" \in SeqRange(script)
        s == "asim" \in SeqRange(script)
    IN  IF c /\ s THEN "compile+run"
        ELSE IF c THEN "compile" ELSE IF s THEN "run" ELSE "none"

Riviera_build_command(r) ==
    LET o == outdated(r.out, Deps(r, r.verilog_sources \o r.vhdl_sources))
        compile == o.value \/ r.force_compile
    IN  IF o.raised THEN Raised("OSError")
        ELSE Built(<<Argv(Riviera_role(Riviera_do_script(r, compile)),
                          <<"vsimsa", "-do", "do", "tmpfile">>)>>,
                   ~compile)

\* ---- Verilator: no rebuild decision; the executable is looked up first
Verilator_build_command(r) ==
    IF ~r.verilator_exec THEN Raised("ValueError")
    ELSE Built(<<Argv("compile",
                      <<"perl", "verilator", "-cc", "--exe", "-Mdir", sim_dir,
                        "-DCOCOTB_SIM=1", "--top-module", toplevel, "--vpi",
                        "--public-flat-rw", "--prefix", "Vtop", "-o", toplevel,
                        "-LDFLAGS", "-lcocotbvpi_verilator", "verilator.cpp">>
                      \o r.verilog_sources),
                 Argv("compile", <<"make", "-C", sim_dir, "-f", "Vtop.mk">>)>>
               \o (IF ~r.compile_only THEN <<Argv("run", <<"sim_build/top">>)>> ELSE <<>>),
               FALSE)

build_command(r) ==
    CASE r.backend = "icarus" -> Icarus_build_command(r)
      [] r.backend = "questa" -> Questa_build_command(r)
      [] r.backend = "ius" -> Ius_build_command(r)
      [] r.backend = "xcelium" -> Xcelium_build_command(r)
      [] r.backend = "vcs" -> Vcs_build_command(r)
      [] r.backend = "ghdl" -> Ghdl_build_command(r)
      [] r.backend = "riviera" -> Riviera_build_command(r)
      [] r.backend = "verilator" -> Verilator_build_command(r)

(***************************************************************************)
(* Construction: Icarus.__init__ and Verilator.__init__ raise ValueError   *)
(* when the request names VHDL sources; no other backend checks.           *)
(***************************************************************************)
init_raises(r) ==
    r.backend \in {"icarus", "verilator"} /\ r.vhdl_sources # <<>>


(***************************************************************************)
(* The results file: absent, or a report, a sequence of test suites, each  *)
(* a sequence of test cases, each the number of <failure> elements it      *)
(* holds. A failure is named by its place <<suite, case, failure>>.        *)
(***************************************************************************)
Cases == 0..MaxFailures
SeqsUpTo(S, n) == UNION {[1..k -> S] : k \in 0..n}
Suites == SeqsUpTo(Cases, MaxCases)
Reports == SeqsUpTo(Suites, MaxSuites)

NoReport == [exists |-> FALSE, suites |-> <<>>]
Report(suites) == [exists |-> TRUE, suites |-> suites]
NoFailure == <<>>

\* the loops of Simulator.run: suites, then cases, then failures, in
\* document order; the first failure met ends the scan
RECURSIVE scan_cases(_, _, _)
scan_cases(ts, s, c) ==
    IF c > Len(ts) THEN NoFailure
    ELSE IF ts[c] > 0 THEN <<s, c, 1>>
    ELSE scan_cases(ts, s, c + 1)

\* a scan that prefers the failure of a later suite to that of an earlier
\* one: C8 does not hold of it
RECURSIVE scan_suites_Last(_, _)
scan_suites_Last(tree, s) ==
    IF s > Len(tree) THEN NoFailure
    ELSE LET later == scan_suites_Last(tree, s + 1)
         IN  IF later # NoFailure THEN later ELSE scan_cases(tree[s], s, 1)

RECURSIVE scan_suites(_, _)
scan_suites(tree, s) ==
    IF s > Len(tree) THEN NoFailure
    ELSE LET f == scan_cases(tree[s], s, 1)
         IN  IF f # NoFailure THEN f ELSE scan_suites(tree, s + 1)

first_failure(tree) == scan_suites(tree, 1)

(***************************************************************************)
(* The tail of Simulator.run: unless compile_only, the results file must   *)
(* exist (else the assertion fails before anything is parsed) and the      *)
(* first failure found fails the run; otherwise the path is returned       *)
(* ("ok"). inspected: os.path.isfile was called; parsed: ET.parse was.     *)
(***************************************************************************)
Tail_(o, f, insp, prs) ==
    [outcome |-> o, failure |-> f, inspected |-> insp, parsed |-> prs]
NoTail == Tail_("none", NoFailure, FALSE, FALSE)

\* a tail without the existence assertion, a missing file reading as a
\* report without suites: C7 does not hold of it
run_tail_NoAssert(compileOnly, file) ==
    IF compileOnly THEN Tail_("ok", NoFailure, FALSE, FALSE)
    ELSE IF first_failure(file.suites) # NoFailure
    THEN Tail_("TestFailure", first_failure(file.suites), TRUE, TRUE)
    ELSE Tail_("ok", NoFailure, TRUE, TRUE)

run_tail(compileOnly, file) ==
    IF compileOnly THEN Tail_("ok", NoFailure, FALSE, FALSE)
    ELSE IF ~file.exists THEN Tail_("ReportMissing", NoFailure, TRUE, FALSE)
    ELSE IF first_failure(file.suites) # NoFailure
    THEN Tail_("TestFailure", first_failure(file.suites), TRUE, TRUE)
    ELSE Tail_("ok", NoFailure, TRUE, TRUE)

(***************************************************************************)
(* The facade run(): os.getenv("SIM", "icarus") names the backend; a name  *)
(* outside supported_sim raises NotImplementedError listing the supported  *)
(* names; the chain of comparisons picks the class to construct.           *)
(***************************************************************************)
\* a variable of an environment: not set, or set to a string
Unset == [set |-> FALSE, value |-> ""]
Val(v) == [set |-> TRUE, value |-> v]
getenv(var, default) == IF var.set THEN var.value ELSE default

supported_sim ==
    <<"icarus", "questa", "ius", "xcelium", "vcs", "ghdl", "riviera", "verilator">>

NoClass == "none"
\* the backend whose build_command a class carries
ClassBackend(class) ==
    CASE class = "Icarus" -> "icarus"
      [] class = "Questa" -> "questa"
      [] class = "Ius" -> "ius"
      [] class = "Xcelium" -> "xcelium"
      [] class = "Vcs" -> "vcs"
      [] class = "Ghdl" -> "ghdl"
      [] class = "Riviera" -> "riviera"
      [] class = "Verilator" -> "verilator"

\* a chain that forgets a name and falls through to the last class: C16
\* does not hold of it
select_Fallthrough(sim_env) ==
    IF sim_env = "icarus" THEN "Icarus"
    ELSE IF sim_env = "questa" THEN "Questa"
    ELSE IF sim_env = "ius" THEN "Ius"
    ELSE IF sim_env = "vcs" THEN "Vcs"
    ELSE IF sim_env = "ghdl" THEN "Ghdl"
    ELSE IF sim_env = "riviera" THEN "Riviera"
    ELSE "Verilator"

select(sim_env) ==
    IF sim_env = "icarus" THEN "Icarus"
    ELSE IF sim_env = "questa" THEN "Questa"
    ELSE IF sim_env = "ius" THEN "Ius"
    ELSE IF sim_env = "xcelium" THEN "Xcelium"
    ELSE IF sim_env = "vcs" THEN "Vcs"
    ELSE IF sim_env = "ghdl" THEN "Ghdl"
    ELSE IF sim_env = "riviera" THEN "Riviera"
    ELSE IF sim_env = "verilator" THEN "Verilator"
    ELSE NoClass

(***************************************************************************)
(* Environments. self.env starts as extra_env, takes TESTCASE, RANDOM_SEED *)
(* and (Ius, Xcelium) GPI_EXTRA in the constructors; run() decides the     *)
(* results path and may store it; build_command of Questa and Riviera sets *)
(* GPI_EXTRA for mixed-language designs; set_env copies every variable of  *)
(* os.environ over self.env and then sets TOPLEVEL (PATH, PYTHONPATH,      *)
(* PYTHONHOME and MODULE, set the same way, are not among the modelled     *)
(* names).                                                                 *)
(***************************************************************************)
EnvNames ==
    {"COCOTB_RESULTS_FILE", "TESTCASE", "RANDOM_SEED", "GPI_EXTRA", "USER_VAR",
     "TOPLEVEL"}
NoEnv == [n \in EnvNames |-> Unset]
tmp_results_file == "sim_build/tmp_results.xml"

\* Simulator.__init__ and the constructors of Ius and Xcelium
init_env(kw) ==
    LET e0 == kw.extra_env
        e1 == IF kw.testcase.set THEN [e0 EXCEPT !["TESTCASE"] = kw.testcase] ELSE e0
        e2 == IF kw.seed.set THEN [e1 EXCEPT !["RANDOM_SEED"] = kw.seed] ELSE e1
    IN  IF kw.r.backend \in {"ius", "xcelium"}
        THEN [e2 EXCEPT !["GPI_EXTRA"] = Val("cocotbvhpi_ius:cocotbvhpi_entry_point")]
        ELSE e2

\* run(): "if not os.getenv(...)" holds for an unset and for an empty value
run_results(env, os_environ) ==
    IF ~os_environ["COCOTB_RESULTS_FILE"].set
       \/ os_environ["COCOTB_RESULTS_FILE"].value = ""
    THEN [path |-> tmp_results_file,
          env |-> [env EXCEPT !["COCOTB_RESULTS_FILE"] = Val(tmp_results_file)]]
    ELSE [path |-> os_environ["COCOTB_RESULTS_FILE"].value, env |-> env]

\* what build_command stores in self.env
build_env(r, env) ==
    IF r.backend \notin {"questa", "riviera"} \/ r.compile_only THEN env
    ELSE LET tool == IF r.backend = "questa" THEN "modelsim" ELSE "aldec"
         IN  IF r.toplevel_lang = "vhdl"
             THEN IF r.verilog_sources # <<>>
                  THEN [env EXCEPT !["GPI_EXTRA"] =
                           Val(IF tool = "modelsim"
                               THEN "cocotbvpi_modelsim:cocotbvpi_entry_point"
                               ELSE "cocotbvpi_aldec:cocotbvpi_entry_point")]
                  ELSE env
             ELSE IF r.vhdl_sources # <<>>
                  THEN [env EXCEPT !["GPI_EXTRA"] =
                           Val(IF tool = "modelsim"
                               THEN "cocotbfli_modelsim:cocotbfli_entry_point"
                               ELSE "cocotbvhpi_aldec:cocotbvhpi_entry_point")]
                  ELSE env

set_env(env, os_environ) ==
    [n \in EnvNames |->
        IF n = "TOPLEVEL" THEN Val(toplevel)
        ELSE IF os_environ[n].set THEN os_environ[n] ELSE env[n]]

(***************************************************************************)
(* Questa's run script. A text is a sequence of pieces; the piece " " is   *)
(* the space add_args puts after every argument. add_args takes a list of  *)
(* arguments, each a string or a list of strings (here: a list of one, or  *)
(* of several, strings), writes every string followed by a space and       *)
(* strips the result; build_command then appends "run -all; quit" to the   *)
(* text unless gui is set.                                                 *)
(***************************************************************************)
RECURSIVE spaced(_)
spaced(arg) ==
    IF arg = <<>> THEN <<>> ELSE <<Head(arg), " ">> \o spaced(Tail(arg))

RECURSIVE concat_args(_)
concat_args(list_args) ==
    IF list_args = <<>> THEN <<>>
    ELSE spaced(Head(list_args)) \o concat_args(Tail(list_args))

RECURSIVE rstrip(_)
rstrip(text) ==
    IF text # <<>> /\ text[Len(text)] = " "
    THEN rstrip(SubSeq(text, 1, Len(text) - 1)) ELSE text

RECURSIVE lstrip(_)
lstrip(text) ==
    IF text # <<>> /\ Head(text) = " " THEN lstrip(Tail(text)) ELSE text

add_args(list_args) == lstrip(rstrip(concat_args(list_args)))

Questa_ext_name(kw) ==
    IF kw.toplevel_lang = "vhdl"
    THEN "-foreign cocotb_init libcocotbfli_modelsim"
    ELSE "-pli libcocotbvpi_modelsim"

Questa_do_script(kw) ==
    add_args(<< <<IF kw.gui THEN "vsim -onfinish stop" ELSE "vsim -onfinish exit">>,
                <<Questa_ext_name(kw)>>,
                kw.simulation_args,
                <<"top.top">>,
                kw.plus_args >>)
    \o (IF ~kw.gui THEN <<"run -all; quit">> ELSE <<>>)

Questa_run_command(kw) ==
    <<"vsim", IF kw.gui THEN "-gui" ELSE "-c", "-do", "source sim_build/runsim.do">>

NoScriptRequest ==
    [gui |-> FALSE, toplevel_lang |-> "verilog", simulation_args |-> <<>>,
     plus_args |-> <<>>]

(***************************************************************************)
(* State.                                                                  *)
(***************************************************************************)
VARIABLES
    handler,        \* signal number -> the installed handler: Orig, or the
                    \* simulator whose exit_gracefully is installed
    old_sigint_h,   \* simulator -> the SIGINT handler it recorded
    old_sigterm_h,  \* simulator -> the SIGTERM handler it recorded
    process,        \* simulator -> self.process: NoProcess while the
                    \* attribute was never assigned, else a child's pid
    nsims,          \* simulators constructed so far; the last is current
    req,            \* the current simulator's request
    compile_only,   \* self.compile_only of the current simulator
    cmds,           \* the command sequence being executed
    i,              \* index in cmds of the command being executed
    pc,             \* where the main thread stands
    child,          \* pid -> the child process
    pipe,           \* lines written by the current child and not yet read
    written,        \* every line the current child wrote
    forwarded,      \* every line of the current child given to the logger
    report,         \* the results file
    frames,         \* the stack of running exit_gracefully invocations
    nsig,           \* signals delivered so far
    outcome,        \* how the current run ended ("none" while it runs)
    info,           \* what the failure carries
    restored,       \* signal -> signal.signal(sig, old) calls made by the
                    \* handler since the current simulator was constructed
    hit,            \* the first signal the current simulator's life saw
    errors,         \* "Command terminated with error" lines of this run
    inspected,      \* this run tested the results file's existence
    parsed,         \* this run parsed the results file
    breq, built, bpc,   \* SpecBuild: the request, build_command's result
    cfile, cmode, cout, cpc \* SpecCollect: the results file, compile_only,
                            \* what the tail of run produced

VARIABLES
    ofile,          \* SpecOutdated: the output artifact's file
    odeps,          \* the dependencies' files, in list order
    oclock,         \* the file system's clock
    ores,           \* what the last call of outdated produced
    opc,            \* "idle", or "called" right after a call
    fsim,           \* SpecFacade: the SIM variable of the process environment
    fkw,            \* the keyword arguments handed to run()
    fclass,         \* the class run() selected
    ferr,           \* the names the configuration error lists
    fpc,            \* "new", "raised" or "constructed"
    penv,           \* SpecEnv: os.environ, variable name -> Unset or value
    ekw,            \* the request: backend request, testcase, seed, extra_env
    senv,           \* self.env
    results_xml_file,   \* the path run() inspects after execution
    cenv,           \* the environment Popen handed to the child
    epc,            \* "new", "constructed" or "spawned"
    skw,            \* SpecScript: gui, toplevel_lang, simulation_args, plus_args
    sscript,        \* the text written to runsim.do, as a sequence of pieces
    sargv,          \* the run command of the sequence
    spc             \* "new" or "built"

mvars == <<handler, old_sigint_h, old_sigterm_h, process, nsims, req,
           compile_only, cmds, i, pc, child, pipe, written, forwarded,
           report, frames, nsig, outcome, info, restored, hit, errors,
           inspected, parsed>>
bvars == <<breq, built, bpc, cfile, cmode, cout, cpc>>
ovars == <<ofile, odeps, oclock, ores, opc>>
fvars == <<fsim, fkw, fclass, ferr, fpc>>
evars == <<penv, ekw, senv, results_xml_file, cenv, epc>>
svars == <<skw, sscript, sargv, spc>>
xvars == <<ovars, fvars, evars, svars>>
vars == <<mvars, bvars, xvars>>

\* the handler in place before any simulator was constructed
Orig == 0
\* self.process was never assigned
NoProcess == 0

Sims == 1..(MaxSims + LongSims)
NoInfo == [pid |-> 0, signum |-> 0, failure |-> NoFailure]
NoHit == [signum |-> 0, live |-> 0, at |-> "none"]
NoRequest == Request("icarus", <<>>, <<>>, <<FALSE, FALSE, FALSE>>, Absent, <<>>,
                     [toplevel_lang |-> "verilog", libdir |-> TRUE,
                      verilator_exec |-> TRUE])
NotBuilt == Raised("not built")

NoEnvRequest ==
    [r |-> NoRequest, testcase |-> Unset, seed |-> Unset, extra_env |-> NoEnv]

\* the requests the orchestration machine runs: one Verilog source, sources
\* present, either no artifact or an up-to-date one
\* from none to two commands (Icarus), a VHDL source that Icarus rejects, the
\* three entries of Vcs with gui, and Verilator with and without its
\* executable
RunRequests ==
    { r \in RequestsOf("icarus", {Absent, File(1)}, {File(1)}) :
        /\ Len(r.verilog_sources) = 1
        /\ ~r.force_compile /\ ~r.gui
        /\ (r.vhdl_sources # <<>> => r.out = Absent /\ ~r.compile_only) }
    \cup
    { r \in RequestsOf("vcs", {Absent}, {File(1)}) :
        /\ Len(r.verilog_sources) = 1 /\ r.vhdl_sources = <<>>
        /\ ~r.force_compile /\ r.gui /\ ~r.compile_only }
    \cup
    { r \in RequestsOf("verilator", {Absent}, {File(1)}) :
        /\ Len(r.verilog_sources) = 1 /\ r.vhdl_sources = <<>>
        /\ ~r.force_compile /\ ~r.gui /\ r.compile_only }

\* the reports a simulation may leave: no failure, or one
RunReports == {<<<<0>>>>, <<<<1>>>>}

Lines == {"text", "blank"}

InitMachine ==
    /\ handler = [s \in Signals |-> Orig]
    /\ old_sigint_h = [k \in Sims |-> Orig]
    /\ old_sigterm_h = [k \in Sims |-> Orig]
    /\ process = [k \in Sims |-> NoProcess]
    /\ nsims = 0
    /\ req = NoRequest
    /\ compile_only = FALSE
    /\ cmds = <<>>
    /\ i = 0
    /\ pc = "idle"
    /\ child = <<>>
    /\ pipe = <<>>
    /\ written = <<>>
    /\ forwarded = <<>>
    /\ report = NoReport
    /\ frames = <<>>
    /\ nsig = 0
    /\ outcome = "none"
    /\ info = NoInfo
    /\ restored = [s \in Signals |-> 0]
    /\ hit = NoHit
    /\ errors = 0
    /\ inspected = FALSE
    /\ parsed = FALSE

InitBuildIdle ==
    /\ breq = NoRequest
    /\ built = NotBuilt
    /\ bpc = "off"

InitCollectIdle ==
    /\ cfile = NoReport
    /\ cmode = FALSE
    /\ cout = NoTail
    /\ cpc = "off"

InitOutdatedIdle ==
    /\ ofile = Absent
    /\ odeps = <<>>
    /\ oclock = 1
    /\ ores = NotCalled
    /\ opc = "off"

InitFacadeIdle ==
    /\ fsim = Unset
    /\ fkw = NoRequest
    /\ fclass = NoClass
    /\ ferr = <<>>
    /\ fpc = "off"

InitEnvIdle ==
    /\ penv = NoEnv
    /\ ekw = NoEnvRequest
    /\ senv = NoEnv
    /\ results_xml_file = ""
    /\ cenv = NoEnv
    /\ epc = "off"

InitScriptIdle ==
    /\ skw = NoScriptRequest
    /\ sscript = <<>>
    /\ sargv = <<>>
    /\ spc = "off"

Init ==
    /\ InitMachine /\ InitBuildIdle /\ InitCollectIdle /\ InitOutdatedIdle
    /\ InitFacadeIdle /\ InitEnvIdle /\ InitScriptIdle


(***************************************************************************)
(* Helpers on the state.                                                   *)
(***************************************************************************)
Top == frames[Len(frames)]
SetTop(f) == [frames EXCEPT ![Len(frames)] = f]
MainRuns == frames = <<>>
\* the pids of the current run's children that have not exited
LiveChildren ==
    {p \in DOMAIN child : child[p].sim = nsims /\ child[p].st # "exited"}
LivePid == IF LiveChildren = {} THEN 0 ELSE CHOOSE p \in LiveChildren : TRUE
InRun == pc \in {"constructed", "spawn", "spawned", "reading", "collect"}

\* an exception leaves the handler frames and, if a run is in progress,
\* the run; the pipe's read end is dropped with execute's frame
Unwind(exc, what) ==
    /\ frames' = <<>>
    /\ pipe' = <<>>
    /\ written' = <<>>
    /\ forwarded' = <<>>
    /\ IF InRun
       THEN pc' = "done" /\ outcome' = exc /\ info' = what
       ELSE UNCHANGED <<pc, outcome, info>>

(***************************************************************************)
(* Simulator.__init__ and the subclass's __init__: the base class records  *)
(* the installed handlers and installs exit_gracefully for both signals;   *)
(* only then does Icarus/Verilator reject VHDL sources.                    *)
(***************************************************************************)
Construct(maxSims) ==
    /\ pc \in {"idle", "done"}
    /\ MainRuns
    /\ nsims < maxSims
    /\ \E r \in RunRequests :
          /\ req' = r
          /\ compile_only' = r.compile_only
          /\ IF init_raises(r)
             THEN pc' = "done" /\ outcome' = "ValueError"
             ELSE pc' = "constructed" /\ outcome' = "none"
    /\ nsims' = nsims + 1
    /\ old_sigint_h' = [old_sigint_h EXCEPT ![nsims + 1] = handler[SIGINT]]
    /\ old_sigterm_h' = [old_sigterm_h EXCEPT ![nsims + 1] = handler[SIGTERM]]
    /\ handler' = [s \in Signals |-> nsims + 1]
    /\ cmds' = <<>>
    /\ i' = 0
    /\ info' = NoInfo
    /\ restored' = [s \in Signals |-> 0]
    /\ hit' = NoHit
    /\ errors' = 0
    /\ inspected' = FALSE
    /\ parsed' = FALSE
    /\ pipe' = <<>>
    /\ written' = <<>>
    /\ forwarded' = <<>>
    /\ UNCHANGED <<process, child, report, frames, nsig, bvars, xvars>>

(***************************************************************************)
(* Simulator.run up to the first command: the results path is the one the  *)
(* environment names (the file there is kept) or a fresh temporary name    *)
(* (no file there); build_command may raise.                               *)
(***************************************************************************)
Run ==
    /\ pc = "constructed"
    /\ MainRuns
    /\ \E explicit \in BOOLEAN :
          report' = IF explicit THEN report ELSE NoReport
    /\ LET b == build_command(req)
       IN  IF b.raised # "none"
           THEN /\ pc' = "done"
                /\ outcome' = b.raised
                /\ UNCHANGED <<cmds, i>>
           ELSE /\ cmds' = b.cmds
                /\ i' = 1
                /\ pc' = IF b.cmds = <<>> THEN "collect" ELSE "spawn"
                /\ UNCHANGED outcome
    /\ UNCHANGED <<handler, old_sigint_h, old_sigterm_h, process, nsims, req,
                   compile_only, child, pipe, written, forwarded, frames, nsig,
                   info, restored, hit, errors, inspected, parsed, bvars, xvars>>

(***************************************************************************)
(* Simulator.execute, one command: subprocess.Popen creates the child      *)
(* (Spawn), the assignment stores it in self.process (Assign), the loop    *)
(* reads a line and logs it unless it is blank (ReadLine), and leaves when *)
(* readline returns nothing and poll() reports the exit (LoopExit), where  *)
(* a non-zero return code is logged as an error.                           *)
(***************************************************************************)
NewChild(k, c) ==
    [sim |-> k, cmd |-> c, st |-> "running", code |-> 0, reaped |-> FALSE,
     kills |-> 0]

Spawn ==
    /\ pc = "spawn"
    /\ MainRuns
    /\ \E found \in BOOLEAN :
          IF ~cmds[i].list \/ ~found
          THEN \* no program of that name: FileNotFoundError from Popen
               /\ pc' = "done"
               /\ outcome' = "FileNotFoundError"
               /\ UNCHANGED <<child, pipe, written, forwarded>>
          ELSE /\ child' = Append(child, NewChild(nsims, i))
               /\ pc' = "spawned"
               /\ pipe' = <<>>
               /\ written' = <<>>
               /\ forwarded' = <<>>
               /\ UNCHANGED outcome
    /\ UNCHANGED <<handler, old_sigint_h, old_sigterm_h, process, nsims, req,
                   compile_only, cmds, i, report, frames, nsig, info, restored,
                   hit, errors, inspected, parsed, bvars, xvars>>

Assign ==
    /\ pc = "spawned"
    /\ MainRuns
    /\ process' = [process EXCEPT ![nsims] = Len(child)]
    /\ pc' = "reading"
    /\ UNCHANGED <<handler, old_sigint_h, old_sigterm_h, nsims, req,
                   compile_only, cmds, i, child, pipe, written, forwarded,
                   report, frames, nsig, outcome, info, restored, hit, errors,
                   inspected, parsed, bvars, xvars>>

ReadLine ==
    /\ pc = "reading"
    /\ MainRuns
    /\ pipe # <<>>
    /\ pipe' = Tail(pipe)
    /\ forwarded' = IF Head(pipe) # "blank"
                    THEN Append(forwarded, Head(pipe)) ELSE forwarded
    /\ UNCHANGED <<handler, old_sigint_h, old_sigterm_h, process, nsims, req,
                   compile_only, cmds, i, pc, child, written, report, frames,
                   nsig, outcome, info, restored, hit, errors, inspected,
                   parsed, bvars, xvars>>

\* an execute that raises on a non-zero return code, as check_call would:
\* C2 does not hold of it
AfterExit_Raise(rc) ==
    /\ errors' = IF rc # 0 THEN errors + 1 ELSE errors
    /\ i' = IF rc # 0 THEN i ELSE i + 1
    /\ pc' = IF rc # 0 THEN "done"
             ELSE IF i = Len(cmds) THEN "collect" ELSE "spawn"
    /\ outcome' = IF rc # 0 THEN "CalledProcessError" ELSE outcome

\* what execute does once the loop has ended with return code rc
AfterExit(rc) ==
    /\ errors' = IF rc # 0 THEN errors + 1 ELSE errors
    /\ i' = i + 1
    /\ pc' = IF i = Len(cmds) THEN "collect" ELSE "spawn"
    /\ UNCHANGED outcome

\* a loop that ends on the first empty read without polling the child: C1
\* does not hold of it
LoopExit_NoPoll ==
    /\ pc = "reading"
    /\ MainRuns
    /\ pipe = <<>>
    /\ AfterExit(0)
    /\ UNCHANGED <<handler, old_sigint_h, old_sigterm_h, process, nsims, req,
                   compile_only, cmds, child, pipe, written, forwarded, report,
                   frames, nsig, info, restored, hit, inspected, parsed, bvars, xvars>>

LoopExit ==
    /\ pc = "reading"
    /\ MainRuns
    /\ pipe = <<>>
    /\ child[process[nsims]].st = "exited"
    /\ child' = [child EXCEPT ![process[nsims]].reaped = TRUE]
    /\ AfterExit(child[process[nsims]].code)
    /\ UNCHANGED <<handler, old_sigint_h, old_sigterm_h, process, nsims, req,
                   compile_only, cmds, pipe, written, forwarded, report, frames,
                   nsig, info, restored, hit, inspected, parsed, bvars, xvars>>

(***************************************************************************)
(* The tail of Simulator.run, once execute has returned.                   *)
(***************************************************************************)
Collect ==
    /\ pc = "collect"
    /\ MainRuns
    /\ pc' = "done"
    /\ LET t == run_tail(compile_only, report)
       IN  /\ outcome' = t.outcome
           /\ inspected' = t.inspected
           /\ parsed' = t.parsed
           /\ info' = [NoInfo EXCEPT !.failure = t.failure]
    /\ UNCHANGED <<handler, old_sigint_h, old_sigterm_h, process, nsims, req,
                   compile_only, cmds, i, child, pipe, written, forwarded,
                   report, frames, nsig, restored, hit, errors, bvars, xvars>>


(***************************************************************************)
(* The children. The child being read writes lines to its pipe; a child    *)
(* running the simulation may write the results file; a child exits with   *)
(* a code of its own, or dies of the kill it was sent.                     *)
(***************************************************************************)
SIGKILL == 9
ExitCodes == {0, 1}

ChildWrite ==
    /\ pc \in {"spawned", "reading"}
    /\ child[Len(child)].st = "running"
    /\ Len(written) < MaxLines
    /\ \E line \in Lines :
          /\ pipe' = Append(pipe, line)
          /\ written' = Append(written, line)
    /\ UNCHANGED <<handler, old_sigint_h, old_sigterm_h, process, nsims, req,
                   compile_only, cmds, i, pc, child, forwarded, report, frames,
                   nsig, outcome, info, restored, hit, errors, inspected,
                   parsed, bvars, xvars>>

ChildReport ==
    /\ \E p \in DOMAIN child :
          /\ child[p].sim = nsims
          /\ child[p].st = "running"
          /\ cmds[child[p].cmd].role \in {"run", "compile+run"}
    /\ pc \in {"spawned", "reading"}
    /\ \E t \in RunReports : report' = Report(t)
    /\ report' # report
    /\ UNCHANGED <<handler, old_sigint_h, old_sigterm_h, process, nsims, req,
                   compile_only, cmds, i, pc, child, pipe, written, forwarded,
                   frames, nsig, outcome, info, restored, hit, errors,
                   inspected, parsed, bvars, xvars>>

ChildExit ==
    /\ \E p \in DOMAIN child, code \in ExitCodes :
          /\ child[p].st = "running"
          /\ child' = [child EXCEPT ![p].st = "exited", ![p].code = code]
    /\ UNCHANGED <<handler, old_sigint_h, old_sigterm_h, process, nsims, req,
                   compile_only, cmds, i, pc, pipe, written, forwarded, report,
                   frames, nsig, outcome, info, restored, hit, errors,
                   inspected, parsed, bvars, xvars>>

ChildDie ==
    /\ \E p \in DOMAIN child :
          /\ child[p].st = "killed"
          /\ child' = [child EXCEPT ![p].st = "exited", ![p].code = -SIGKILL]
    /\ UNCHANGED <<handler, old_sigint_h, old_sigterm_h, process, nsims, req,
                   compile_only, cmds, i, pc, pipe, written, forwarded, report,
                   frames, nsig, outcome, info, restored, hit, errors,
                   inspected, parsed, bvars, xvars>>

(***************************************************************************)
(* Signal delivery. Python runs the installed handler on the main thread,  *)
(* between two bytecodes of whatever it is executing, the handler itself   *)
(* included. With the original disposition in place the process is ended   *)
(* (KeyboardInterrupt for SIGINT, termination for SIGTERM).                *)
(***************************************************************************)
Signal(maxSignals) ==
    /\ nsig < maxSignals
    /\ pc \notin {"idle", "halted"}
    /\ nsig' = nsig + 1
    /\ \E s \in Signals :
          /\ hit' = IF hit = NoHit
                    THEN [signum |-> s, live |-> LivePid, at |-> pc]
                    ELSE hit
          /\ IF handler[s] = Orig
             THEN /\ pc' = "halted"
                  /\ frames' = <<>>
                  /\ outcome' = IF InRun THEN "Interrupted" ELSE outcome
                  /\ pipe' = <<>>
                  /\ written' = <<>>
                  /\ forwarded' = <<>>
             ELSE /\ frames' = Append(frames, [sim |-> handler[s], signum |-> s,
                                              hpc |-> "enter", pid |-> NoProcess])
                  /\ UNCHANGED <<pc, outcome, pipe, written, forwarded>>
    /\ UNCHANGED <<handler, old_sigint_h, old_sigterm_h, process, nsims, req,
                   compile_only, cmds, i, child, report, info, restored, errors,
                   inspected, parsed, bvars, xvars>>

(***************************************************************************)
(* Simulator.exit_gracefully, statement by statement.                      *)
(*   HEnter        reads self.process: AttributeError when the attribute   *)
(*                 was never assigned, else pid = self.process.pid         *)
(*   HKill         self.process.kill(): polls, and sends SIGKILL unless    *)
(*                 the child is known to have exited                       *)
(*   HWait         self.process.wait(): returns once the child has exited  *)
(*   HRestoreInt   signal.signal(SIGINT, self.old_sigint_h)                *)
(*   HRestoreTerm  signal.signal(SIGTERM, self.old_sigterm_h)              *)
(*   HRaise        assert False, "Exiting pid: ... with signum: ..."       *)
(***************************************************************************)
HEnter ==
    /\ frames # <<>>
    /\ Top.hpc = "enter"
    /\ IF process[Top.sim] = NoProcess
       THEN Unwind("AttributeError", NoInfo)
       ELSE /\ frames' = SetTop([Top EXCEPT !.pid = process[Top.sim], !.hpc = "kill"])
            /\ UNCHANGED <<pc, outcome, info, pipe, written, forwarded>>
    /\ UNCHANGED <<handler, old_sigint_h, old_sigterm_h, process, nsims, req,
                   compile_only, cmds, i, child, report, nsig, restored, hit,
                   errors, inspected, parsed, bvars, xvars>>

\* Popen.kill: poll(); if the return code is known, nothing is sent
kill(c) ==
    IF c.st = "exited" THEN [c EXCEPT !.reaped = TRUE]
    ELSE [c EXCEPT !.st = "killed", !.kills = c.kills + 1]

HKill ==
    /\ frames # <<>>
    /\ Top.hpc = "kill"
    /\ child' = [child EXCEPT ![Top.pid] = kill(child[Top.pid])]
    /\ frames' = SetTop([Top EXCEPT !.hpc = "wait"])
    /\ UNCHANGED <<handler, old_sigint_h, old_sigterm_h, process, nsims, req,
                   compile_only, cmds, i, pc, pipe, written, forwarded, report,
                   nsig, outcome, info, restored, hit, errors, inspected,
                   parsed, bvars, xvars>>

HWait ==
    /\ frames # <<>>
    /\ Top.hpc = "wait"
    /\ child[Top.pid].st = "exited"
    /\ child' = [child EXCEPT ![Top.pid].reaped = TRUE]
    /\ frames' = SetTop([Top EXCEPT !.hpc = "restore_int"])
    /\ UNCHANGED <<handler, old_sigint_h, old_sigterm_h, process, nsims, req,
                   compile_only, cmds, i, pc, pipe, written, forwarded, report,
                   nsig, outcome, info, restored, hit, errors, inspected,
                   parsed, bvars, xvars>>

\* signal.signal(sig, old) as the handler calls it
restore(sig, old) ==
    /\ handler' = [handler EXCEPT ![sig] = old]
    /\ restored' = [restored EXCEPT ![sig] = restored[sig] + 1]

HRestoreInt ==
    /\ frames # <<>>
    /\ Top.hpc = "restore_int"
    /\ restore(SIGINT, old_sigint_h[Top.sim])
    /\ frames' = SetTop([Top EXCEPT !.hpc = "restore_term"])
    /\ UNCHANGED <<old_sigint_h, old_sigterm_h, process, nsims, req,
                   compile_only, cmds, i, pc, child, pipe, written, forwarded,
                   report, nsig, outcome, info, hit, errors, inspected, parsed,
                   bvars, xvars>>

HRestoreTerm ==
    /\ frames # <<>>
    /\ Top.hpc = "restore_term"
    /\ restore(SIGTERM, old_sigterm_h[Top.sim])
    /\ frames' = SetTop([Top EXCEPT !.hpc = "raise"])
    /\ UNCHANGED <<old_sigint_h, old_sigterm_h, process, nsims, req,
                   compile_only, cmds, i, pc, child, pipe, written, forwarded,
                   report, nsig, outcome, info, hit, errors, inspected, parsed,
                   bvars, xvars>>

HRaise ==
    /\ frames # <<>>
    /\ Top.hpc = "raise"
    /\ Unwind("Cancelled", [NoInfo EXCEPT !.pid = Top.pid, !.signum = Top.signum])
    /\ UNCHANGED <<handler, old_sigint_h, old_sigterm_h, process, nsims, req,
                   compile_only, cmds, i, child, report, nsig, restored, hit,
                   errors, inspected, parsed, bvars, xvars>>

Step(maxSims, maxSignals) ==
    \/ Construct(maxSims) \/ Run \/ Spawn \/ Assign \/ ReadLine \/ LoopExit
    \/ Collect
    \/ ChildWrite \/ ChildReport \/ ChildExit \/ ChildDie
    \/ Signal(maxSignals)
    \/ HEnter \/ HKill \/ HWait \/ HRestoreInt \/ HRestoreTerm \/ HRaise

Next == Step(MaxSims, MaxSignals)
Spec == Init /\ [][Next]_vars

NextLong == Step(LongSims, LongSignals)
SpecLong == Init /\ [][NextLong]_vars

(***************************************************************************)
(* SpecLive: the machine of Spec with the fairness the interpreter gives:  *)
(* the main thread always takes the next step of a handler it is running.  *)
(* A child owes nothing: it may stay alive for ever, also after SIGKILL    *)
(* was sent (a process in uninterruptible sleep), so no fairness is        *)
(* assumed of ChildExit and ChildDie.                                      *)
(***************************************************************************)
Fairness ==
    /\ WF_vars(HEnter) /\ WF_vars(HKill) /\ WF_vars(HWait)
    /\ WF_vars(HRestoreInt) /\ WF_vars(HRestoreTerm) /\ WF_vars(HRaise)

SpecLive == Init /\ [][Next]_vars /\ Fairness

(***************************************************************************)
(* SpecBuild: a simulator of each backend is constructed from a request    *)
(* and, unless the constructor raised, asked for its command sequence.     *)
(***************************************************************************)
InitBuild ==
    /\ InitMachine
    /\ InitCollectIdle
    /\ InitOutdatedIdle
    /\ InitFacadeIdle
    /\ InitEnvIdle
    /\ InitScriptIdle
    /\ breq \in Requests
    /\ built = NotBuilt
    /\ bpc = "new"

BConstruct ==
    /\ bpc = "new"
    /\ bpc' = IF init_raises(breq) THEN "rejected" ELSE "constructed"
    /\ UNCHANGED <<mvars, xvars, breq, built, cfile, cmode, cout, cpc>>

BuildFrame ==
    /\ bpc = "constructed"
    /\ bpc' = "built"
    /\ UNCHANGED <<mvars, xvars, breq, cfile, cmode, cout, cpc>>

IcarusBuild ==
    /\ breq.backend = "icarus"
    /\ built' = Icarus_build_command(breq)
    /\ BuildFrame

QuestaBuild ==
    /\ breq.backend = "questa"
    /\ built' = Questa_build_command(breq)
    /\ BuildFrame

IusBuild ==
    /\ breq.backend = "ius"
    /\ built' = Ius_build_command(breq)
    /\ BuildFrame

XceliumBuild ==
    /\ breq.backend = "xcelium"
    /\ built' = Xcelium_build_command(breq)
    /\ BuildFrame

VcsBuild ==
    /\ breq.backend = "vcs"
    /\ built' = Vcs_build_command(breq)
    /\ BuildFrame

GhdlBuild ==
    /\ breq.backend = "ghdl"
    /\ built' = Ghdl_build_command(breq)
    /\ BuildFrame

RivieraBuild ==
    /\ breq.backend = "riviera"
    /\ built' = Riviera_build_command(breq)
    /\ BuildFrame

VerilatorBuild ==
    /\ breq.backend = "verilator"
    /\ built' = Verilator_build_command(breq)
    /\ BuildFrame

NextBuild ==
    \/ BConstruct
    \/ IcarusBuild \/ QuestaBuild \/ IusBuild \/ XceliumBuild
    \/ VcsBuild \/ GhdlBuild \/ RivieraBuild \/ VerilatorBuild

SpecBuild == InitBuild /\ [][NextBuild]_vars

(***************************************************************************)
(* SpecCollect: the tail of run applied to a results file.                 *)
(***************************************************************************)
InitCollect ==
    /\ InitMachine
    /\ InitBuildIdle
    /\ InitOutdatedIdle
    /\ InitFacadeIdle
    /\ InitEnvIdle
    /\ InitScriptIdle
    /\ cfile \in {NoReport} \cup {Report(t) : t \in Reports}
    /\ cmode \in BOOLEAN
    /\ cout = NoTail
    /\ cpc = "new"

CollectStep ==
    /\ cpc = "new"
    /\ cout' = run_tail(cmode, cfile)
    /\ cpc' = "done"
    /\ UNCHANGED <<mvars, xvars, breq, built, bpc, cfile, cmode>>

NextCollect == CollectStep

SpecCollect == InitCollect /\ [][NextCollect]_vars


(***************************************************************************)
(* SpecOutdated: Simulator.outdated called on an output and a dependency   *)
(* list while the file system changes: the clock advances, a dependency is *)
(* touched (written at the clock's time, created if missing), the output   *)
(* is recreated.                                                           *)
(***************************************************************************)
InitOutdated ==
    /\ InitMachine
    /\ InitBuildIdle
    /\ InitCollectIdle
    /\ InitFacadeIdle
    /\ InitEnvIdle
    /\ InitScriptIdle
    /\ ofile \in {Absent, File(1)}
    /\ odeps \in SeqsUpTo({Absent, File(1)}, MaxDeps)
    /\ oclock = 1
    /\ ores = NotCalled
    /\ opc = "idle"

Tick ==
    /\ oclock < MaxTime
    /\ oclock' = oclock + 1
    /\ UNCHANGED <<mvars, bvars, fvars, evars, svars, ofile, odeps, ores, opc>>

Touch ==
    /\ \E k \in DOMAIN odeps :
          /\ odeps[k] # File(oclock)
          /\ odeps' = [odeps EXCEPT ![k] = File(oclock)]
    /\ opc' = "idle"
    /\ UNCHANGED <<mvars, bvars, fvars, evars, svars, ofile, oclock, ores>>

Recreate ==
    /\ ofile # File(oclock)
    /\ ofile' = File(oclock)
    /\ opc' = "idle"
    /\ UNCHANGED <<mvars, bvars, fvars, evars, svars, odeps, oclock, ores>>

CallOutdated ==
    /\ opc = "idle"
    /\ ores' = outdated(ofile, odeps)
    /\ opc' = "called"
    /\ UNCHANGED <<mvars, bvars, fvars, evars, svars, ofile, odeps, oclock>>

NextOutdated == Tick \/ Touch \/ Recreate \/ CallOutdated

SpecOutdated == InitOutdated /\ [][NextOutdated]_vars

(***************************************************************************)
(* SpecFacade: the facade run() under a value of SIM. The facade raises or *)
(* constructs the selected class (whose constructor installs the signal    *)
(* handlers and may itself raise); sim.run() then builds the commands.     *)
(***************************************************************************)
SimValues ==
    {Unset, Val(""), Val("modelsim"), Val("Icarus")}
    \cup {Val(supported_sim[k]) : k \in DOMAIN supported_sim}

FacadeKwargs == RequestsOf("icarus", {Absent, File(1)}, {File(1)})

InitFacade ==
    /\ InitMachine
    /\ InitBuildIdle
    /\ InitCollectIdle
    /\ InitOutdatedIdle
    /\ InitEnvIdle
    /\ InitScriptIdle
    /\ fsim \in SimValues
    /\ fkw \in FacadeKwargs
    /\ fclass = NoClass
    /\ ferr = <<>>
    /\ fpc = "new"

Facade ==
    /\ fpc = "new"
    /\ LET sim_env == getenv(fsim, "icarus")
       IN  IF sim_env \notin SeqRange(supported_sim)
           THEN /\ fpc' = "raised"
                /\ ferr' = supported_sim
                /\ outcome' = "NotImplementedError"
                /\ pc' = "done"
                /\ UNCHANGED <<fclass, handler, old_sigint_h, old_sigterm_h,
                               nsims, req, compile_only>>
           ELSE LET r == [fkw EXCEPT !.backend = ClassBackend(select(sim_env))]
                IN  /\ fclass' = select(sim_env)
                    /\ fpc' = "constructed"
                    /\ req' = r
                    /\ compile_only' = r.compile_only
                    /\ nsims' = nsims + 1
                    /\ old_sigint_h' =
                          [old_sigint_h EXCEPT ![nsims + 1] = handler[SIGINT]]
                    /\ old_sigterm_h' =
                          [old_sigterm_h EXCEPT ![nsims + 1] = handler[SIGTERM]]
                    /\ handler' = [sg \in Signals |-> nsims + 1]
                    /\ IF init_raises(r)
                       THEN pc' = "done" /\ outcome' = "ValueError"
                       ELSE pc' = "constructed" /\ outcome' = "none"
                    /\ UNCHANGED ferr
    /\ UNCHANGED <<process, cmds, i, child, pipe, written, forwarded, report,
                   frames, nsig, info, restored, hit, errors, inspected,
                   parsed, bvars, ovars, evars, svars,
                   fsim, fkw>>

NextFacade == Facade \/ Run

SpecFacade == InitFacade /\ [][NextFacade]_vars

(***************************************************************************)
(* SpecEnv: a simulator is constructed from a request under a process      *)
(* environment, and run() goes up to the Popen of its first command.       *)
(***************************************************************************)
\* an Icarus and an Ius request, and mixed-language Questa requests
EnvBackendRequests ==
    { r \in RequestsOf("icarus", {Absent}, {File(1)})
            \cup RequestsOf("ius", {Absent}, {File(1)})
            \cup RequestsOf("questa", {Absent}, {File(1)}) :
        /\ ~r.force_compile /\ ~r.compile_only /\ ~r.gui
        /\ Len(r.verilog_sources) = 1
        /\ (r.vhdl_sources # <<>>) = (r.backend = "questa")
        /\ r.libdir }

ProcessEnvs ==
    { e \in [EnvNames -> {Unset, Val(""), Val("p")}] :
        \A n \in EnvNames : e[n] = Val("") => n = "COCOTB_RESULTS_FILE" }

ExtraEnvs ==
    { e \in [EnvNames -> {Unset, Val("x")}] : ~e["TOPLEVEL"].set }

InitEnv ==
    /\ InitMachine
    /\ InitBuildIdle
    /\ InitCollectIdle
    /\ InitOutdatedIdle
    /\ InitFacadeIdle
    /\ InitScriptIdle
    /\ penv \in ProcessEnvs
    /\ ekw \in [r : EnvBackendRequests, testcase : {Unset, Val("t")},
                 seed : {Unset, Val("7")}, extra_env : ExtraEnvs]
    /\ senv = NoEnv
    /\ results_xml_file = ""
    /\ cenv = NoEnv
    /\ epc = "new"

EnvConstruct ==
    /\ epc = "new"
    /\ senv' = init_env(ekw)
    /\ epc' = "constructed"
    /\ UNCHANGED <<mvars, bvars, ovars, fvars, svars, penv, ekw, results_xml_file, cenv>>

\* run(): the results path, build_command, set_env, and execute's set_env
\* and first Popen
EnvRun ==
    /\ epc = "constructed"
    /\ build_command(ekw.r).raised = "none"
    /\ build_command(ekw.r).cmds # <<>>
    /\ LET rr == run_results(senv, penv)
           e1 == build_env(ekw.r, rr.env)
           e2 == set_env(e1, penv)
           e3 == set_env(e2, penv)
       IN  /\ results_xml_file' = rr.path
           /\ senv' = e3
           /\ cenv' = e3
    /\ epc' = "spawned"
    /\ UNCHANGED <<mvars, bvars, ovars, fvars, svars, penv, ekw>>

NextEnv == EnvConstruct \/ EnvRun

SpecEnv == InitEnv /\ [][NextEnv]_vars

(***************************************************************************)
(* SpecScript: the simulation phase of Questa.build_command (not           *)
(* compile_only) over gui, the top-level language and the argument lists.  *)
(***************************************************************************)
ScriptRequests ==
    [gui : BOOLEAN, toplevel_lang : {"verilog", "vhdl"},
     simulation_args : SeqsUpTo({"-t"}, MaxArgs),
     plus_args : SeqsUpTo({"+a", "+b"}, MaxArgs)]

InitScript ==
    /\ InitMachine
    /\ InitBuildIdle
    /\ InitCollectIdle
    /\ InitOutdatedIdle
    /\ InitFacadeIdle
    /\ InitEnvIdle
    /\ skw \in ScriptRequests
    /\ sscript = <<>>
    /\ sargv = <<>>
    /\ spc = "new"

QuestaScript ==
    /\ spc = "new"
    /\ sscript' = Questa_do_script(skw)
    /\ sargv' = Questa_run_command(skw)
    /\ spc' = "built"
    /\ UNCHANGED <<mvars, bvars, ovars, fvars, evars, skw>>

NextScript == QuestaScript

SpecScript == InitScript /\ [][NextScript]_vars

(***************************************************************************)
(* Properties.                                                             *)
(***************************************************************************)
\* execute has run every command of the sequence and returned
ExecuteReturned == i = Len(cmds) + 1
\* the current run ended in the tail of run, not by an exception from a
\* signal handler or from Popen
Collected ==
    /\ pc = "done"
    /\ ExecuteReturned
    /\ outcome \in {"ok", "ReportMissing", "TestFailure"}
SignalledInRun == hit # NoHit /\ hit.at # "done"

\* C1: commands run strictly one after another: of two children of the same
\* run the one of the earlier command has exited, so a command is spawned only
\* after the prior one has exited, and no run ever has two children alive.
C1_Sequential ==
    /\ \A p, q \in DOMAIN child :
          child[p].sim = child[q].sim /\ child[p].cmd < child[q].cmd
             => child[p].st = "exited"
    /\ \A k \in Sims :
          Cardinality({p \in DOMAIN child :
                          child[p].sim = k /\ child[p].st # "exited"}) <= 1

\* the second command of a run is running after the first exited non-zero
C1_Witness ==
    \E p, q \in DOMAIN child :
        /\ child[p].sim = child[q].sim
        /\ child[p].cmd = 1 /\ child[p].st = "exited" /\ child[p].code # 0
        /\ child[q].cmd = 2 /\ child[q].st = "running"

\* C2: a non-zero exit code never raises and never stops the sequence: a run
\* in which a command exited non-zero, and which no signal and no missing
\* program ended, has executed every command, and its outcome is what the
\* result check says (in a compile-only run: success).
C2_ExitCodeNeverStops ==
    /\ outcome \in {"none", "ok", "ReportMissing", "TestFailure", "Cancelled",
                    "Interrupted", "AttributeError", "FileNotFoundError",
                    "ValueError", "OSError"}
    /\ (pc = "done" /\ errors > 0 /\ ~SignalledInRun
                    /\ outcome # "FileNotFoundError")
          => /\ ExecuteReturned
             /\ errors <= Len(cmds)
             /\ outcome = run_tail(compile_only, report).outcome

\* a run of two commands passed although both exited non-zero
C2_Witness ==
    /\ pc = "done"
    /\ Len(cmds) = 2
    /\ errors = 2
    /\ ~compile_only
    /\ outcome = "ok"

\* C3: a signal delivered while a child of the run is running ends the run
\* with that child killed and exited, with the cancellation failure carrying
\* that child's pid and the signal number, with no later command started and
\* the results file never inspected.
C3_SignalKillsChild ==
    (pc = "done" /\ SignalledInRun /\ hit.live # 0)
       => /\ child[hit.live].st = "exited"
          /\ outcome = "Cancelled"
          /\ info.pid = hit.live
          /\ info.signum \in Signals
          /\ ~inspected
          /\ \A p \in DOMAIN child :
                child[p].sim = nsims => child[p].cmd <= child[hit.live].cmd

\* C4: after a cancelled run both signals have the handler that was in place
\* before any simulator was constructed, whatever simulators were constructed
\* and run earlier in the process.
C4_RestoredToOriginal ==
    (pc = "done" /\ outcome = "Cancelled")
       => \A s \in Signals : handler[s] = Orig

\* C5: a signal that arrives during a run while no child is active (before
\* the first spawn in particular) restores the recorded handlers and fails
\* the run with the cancellation failure, with no kill sent and no other
\* error.
C5_NoChildCancels ==
    (pc = "done" /\ SignalledInRun /\ hit.live = 0)
       => /\ outcome = "Cancelled"
          /\ handler[SIGINT] = old_sigint_h[nsims]
          /\ handler[SIGTERM] = old_sigterm_h[nsims]
          /\ \A p \in DOMAIN child : child[p].kills = 0

\* C6: whatever the burst of signals, a child is sent at most one kill and
\* each signal's handler is restored at most once.
C6_AtMostOnce ==
    /\ \A p \in DOMAIN child : child[p].kills <= 1
    /\ \A s \in Signals : restored[s] <= 1

\* C7: in a non-compile-only run that has executed all its commands, a
\* missing results file fails the run with the report-missing failure, with
\* nothing parsed and no test case inspected, whatever the exit codes were.
C7_ReportMissing ==
    (Collected /\ ~compile_only /\ ~report.exists)
       => /\ outcome = "ReportMissing"
          /\ ~parsed
          /\ info.failure = NoFailure

\* every command exited with 0 and the results file is missing
C7_Witness ==
    /\ Collected
    /\ ~compile_only
    /\ ~report.exists
    /\ cmds # <<>>
    /\ errors = 0
    /\ outcome = "ReportMissing"

\* the places of a report that hold a failure, and document order on them
Failing(tree) ==
    {<<s, c>> : s \in DOMAIN tree, c \in 1..MaxCases} \cap
    {sc \in (DOMAIN tree) \X (1..MaxCases) :
        sc[2] \in DOMAIN tree[sc[1]] /\ tree[sc[1]][sc[2]] > 0}
Before(a, b) == a[1] < b[1] \/ (a[1] = b[1] /\ a[2] < b[2])

\* C8: a report without failure makes the run succeed (the path is
\* returned); otherwise the run raises a test failure that names the first
\* failure in document order, never a later one.
C8_FirstFailure ==
    (cpc = "done" /\ ~cmode /\ cfile.exists)
       => IF Failing(cfile.suites) = {}
          THEN cout.outcome = "ok" /\ cout.failure = NoFailure
          ELSE /\ cout.outcome = "TestFailure"
               /\ <<cout.failure[1], cout.failure[2]>> \in Failing(cfile.suites)
               /\ \A f \in Failing(cfile.suites) :
                     ~Before(f, <<cout.failure[1], cout.failure[2]>>)
               /\ cout.failure[3] = 1

\* two failures, in the second case of the first suite and in the second
\* suite: the first is the one named
C8_Witness ==
    /\ cpc = "done"
    /\ ~cmode
    /\ Failing(cfile.suites) = {<<1, 2>>, <<2, 1>>}
    /\ cout.outcome = "TestFailure"
    /\ cout.failure = <<1, 2, 1>>

\* what an entry of a command sequence does
IsCommand(e) == e.list
Runs(e) == e.role \in {"run", "compile+run"}
Compiles(e) == e.role \in {"compile", "compile+run"}

\* C9: every entry of a command sequence is a command, a command that runs
\* the simulation is the last entry, and with compile_only nothing runs the
\* simulation.
C9_CompileThenRun ==
    (bpc = "built" /\ built.raised = "none")
       => \A k \in DOMAIN built.cmds :
             /\ IsCommand(built.cmds[k])
             /\ (Runs(built.cmds[k]) => k = Len(built.cmds))
             /\ (breq.compile_only => ~Runs(built.cmds[k]))

\* the artifact exists and is not older than any source of the request
Fresh(r) ==
    /\ r.out.exists
    /\ \A p \in SeqRange(r.verilog_sources) \cup SeqRange(r.vhdl_sources) :
          r.mt[p].exists /\ r.mt[p].mtime <= r.out.mtime

\* C10: with a fresh artifact and no force_compile no entry compiles and the
\* skip notice is logged; with force_compile, or a stale or missing
\* artifact, the compilation is emitted.
C10_SkipWhenFresh ==
    (bpc = "built" /\ built.raised = "none")
       => /\ (Fresh(breq) /\ ~breq.force_compile)
                => /\ \A k \in DOMAIN built.cmds : ~Compiles(built.cmds[k])
                   /\ built.skip
          /\ (breq.force_compile \/ ~Fresh(breq))
                => \E k \in DOMAIN built.cmds : Compiles(built.cmds[k])

\* C11: two Verilog sources (and nothing else asked for), no compiled
\* artifact, no force_compile, no compile_only: the sequence of a backend
\* that accepts Verilog sources has exactly two entries, the compile command
\* and then the run command.
C11_CompileRun ==
    (/\ bpc = "built" /\ built.raised = "none"
     /\ breq.backend # "ghdl"
     /\ Len(breq.verilog_sources) = 2 /\ breq.vhdl_sources = <<>>
     /\ ~breq.force_compile /\ ~breq.compile_only /\ ~breq.gui
     /\ ~breq.out.exists)
       => /\ Len(built.cmds) = 2
          /\ built.cmds[1].role = "compile"
          /\ built.cmds[2].role = "run"

\* the HDL family a backend cannot simulate: the sources of that family in
\* a request
Unsupported(r) ==
    CASE r.backend \in {"icarus", "verilator", "vcs"} -> r.vhdl_sources
      [] r.backend = "ghdl" -> r.verilog_sources
      [] OTHER -> <<>>

\* C15: a request that names sources of a family its backend cannot simulate
\* is rejected at construction: the simulator is never constructed and no
\* command is produced for it.
C15_RejectsUnsupported ==
    Unsupported(breq) # <<>>
       => /\ bpc \in {"off", "new", "rejected"}
          /\ built.cmds = <<>>

\* C19: a run that fails because the program of one of its commands is not
\* found fails before the first child is spawned: no command of the run was
\* started ahead of the failure.
C19_MissingToolBeforeSpawn ==
    (pc = "done" /\ outcome = "FileNotFoundError" /\ cmds[i].list)
       => \A p \in DOMAIN child : child[p].sim # nsims

\* C20: self.process names a live child only: once the exit of a child has
\* been collected (by poll in execute or by wait in the handler) no
\* simulator's handle names that child.
C20_HandleCleared ==
    \A k \in 1..nsims :
        process[k] # NoProcess => ~child[process[k]].reaped

\* C12: outdated returns true when the output does not exist, whatever the
\* dependencies; when the output exists (and the dependencies do) it returns
\* true exactly when some dependency is strictly newer than the output, so
\* equal times and an empty list give false.
C12_Outdated ==
    opc = "called"
       => /\ ~ofile.exists => (~ores.raised /\ ores.value)
          /\ (ofile.exists /\ \A k \in DOMAIN odeps : odeps[k].exists)
                => /\ ~ores.raised
                   /\ ores.value <=>
                         \E k \in DOMAIN odeps : odeps[k].mtime > ofile.mtime

\* the newest dependency is as old as the output: not outdated
C12_Witness ==
    /\ opc = "called"
    /\ ofile = File(2)
    /\ odeps = <<File(1), File(2)>>
    /\ ores = [raised |-> FALSE, value |-> FALSE]

\* C13: a call of outdated with a dependency that does not exist fails with
\* an error, whether the output exists or not and wherever the missing
\* path stands in the list.
C13_MissingDependency ==
    (opc = "called" /\ \E k \in DOMAIN odeps : ~odeps[k].exists)
       => ores.raised

\* what a call of outdated would return for the files as they are
Stale(o, d) == ~outdated(o, d).raised /\ outdated(o, d).value
UpToDate(o, d) == ~outdated(o, d).raised /\ ~outdated(o, d).value

\* C14: a step that touches a dependency to a time after the output's makes
\* the pair outdated, and no step takes a pair from outdated to up to date
\* without rewriting the output.
C14_Monotonic ==
    [][/\ (/\ ofile' = ofile /\ ofile.exists
           /\ \A k \in DOMAIN odeps' : odeps'[k].exists
           /\ \E k \in DOMAIN odeps :
                 odeps'[k] # odeps[k] /\ odeps'[k].mtime > ofile.mtime)
          => Stale(ofile', odeps')
       /\ (Stale(ofile, odeps) /\ UpToDate(ofile', odeps'))
          => ofile' # ofile]_vars

\* an older and a newer dependency: the call after the touch of the first
\* one returned true
C14_Witness ==
    /\ opc = "called"
    /\ ofile = File(1)
    /\ odeps = <<File(2), File(1)>>
    /\ ores = [raised |-> FALSE, value |-> TRUE]

\* C16: each of the eight names in SIM constructs the variant of that name,
\* an unset SIM constructs icarus, and any other value raises the
\* configuration error listing the eight supported names with no simulator
\* constructed, no handler installed and no child spawned.
C16_Selects ==
    fpc \in {"raised", "constructed"}
       => /\ (fsim.set /\ fsim.value \in Backends)
                => /\ fpc = "constructed"
                   /\ nsims = 1
                   /\ req.backend = fsim.value
                   /\ ClassBackend(fclass) = fsim.value
          /\ ~fsim.set
                => fpc = "constructed" /\ nsims = 1 /\ req.backend = "icarus"
          /\ (fsim.set /\ fsim.value \notin Backends)
                => /\ fpc = "raised"
                   /\ outcome = "NotImplementedError"
                   /\ SeqRange(ferr) = Backends
                   /\ nsims = 0
                   /\ \A sg \in Signals : handler[sg] = Orig
                   /\ child = <<>>

\* SIM=xcelium: the Xcelium variant was constructed and has built commands
C16_Witness ==
    /\ fpc = "constructed"
    /\ fsim = Val("xcelium")
    /\ fclass = "Xcelium"
    /\ pc = "spawn"
    /\ cmds # <<>>

\* C17: the results path in the child's environment is the path run()
\* inspects after execution, whatever COCOTB_RESULTS_FILE is in the process
\* environment (unset, a path, the empty string) and in extra_env.
C17_SameReportPath ==
    epc = "spawned" => cenv["COCOTB_RESULTS_FILE"] = Val(results_xml_file)

\* the value the request gives a variable: the testcase and seed arguments
\* and the backend's bridging selector, else the entry of extra_env
BridgingSelector(r) ==
    CASE r.backend \in {"ius", "xcelium"} -> Val("cocotbvhpi_ius:cocotbvhpi_entry_point")
      [] r.backend = "questa" /\ r.toplevel_lang = "vhdl" /\ r.verilog_sources # <<>>
            -> Val("cocotbvpi_modelsim:cocotbvpi_entry_point")
      [] r.backend = "questa" /\ r.toplevel_lang # "vhdl" /\ r.vhdl_sources # <<>>
            -> Val("cocotbfli_modelsim:cocotbfli_entry_point")
      [] OTHER -> Unset
Requested(kw, n) ==
    CASE n = "TESTCASE" /\ kw.testcase.set -> kw.testcase
      [] n = "RANDOM_SEED" /\ kw.seed.set -> kw.seed
      [] n = "GPI_EXTRA" /\ BridgingSelector(kw.r).set -> BridgingSelector(kw.r)
      [] OTHER -> kw.extra_env[n]

\* C18: every variable the request or the backend sets (extra_env entries,
\* TESTCASE, RANDOM_SEED, GPI_EXTRA) has the request's value in the child's
\* environment, also when the process environment defines it.
C18_RequestOverrides ==
    epc = "spawned"
       => \A n \in EnvNames \ {"COCOTB_RESULTS_FILE", "TOPLEVEL"} :
             Requested(ekw, n).set => cenv[n] = Requested(ekw, n)

\* C21: a run that fails after a signal that arrived between the start of
\* spawning a command and the end of the run leaves no child of the run
\* alive, the window between process creation and the assignment of the
\* handle included.
C21_NoChildLeftAlive ==
    (/\ pc = "done" /\ SignalledInRun
     /\ hit.at \in {"spawn", "spawned", "reading", "collect"})
       => \A p \in DOMAIN child :
             child[p].sim = nsims => child[p].st = "exited"

\* C23: the lines a command's child has written are forwarded in the order
\* written, each once: what was forwarded followed by what is still in the
\* pipe is what was written, and when the loop has ended (before the next
\* command is started, and before the results are collected) everything
\* written has been forwarded.
C23_LinesForwarded ==
    /\ pc \in {"spawned", "reading"} => forwarded \o pipe = written
    /\ pc \in {"spawn", "collect"} => forwarded = written

\* the programs the backends invoke
Programs ==
    {"iverilog", "vvp", "vsim", "irun", "xrun", "vcs", "sim_build/simv", "ghdl",
     "vsimsa", "perl", "make", "sim_build/top"}

\* C24: every entry of a command sequence is one complete invocation: an
\* argument vector that starts with a program; no entry is a bare flag.
C24_CompleteInvocations ==
    (bpc = "built" /\ built.raised = "none")
       => \A k \in DOMAIN built.cmds :
             /\ built.cmds[k].list
             /\ built.cmds[k].argv # <<>>
             /\ built.cmds[k].argv[1] \in Programs

\* C26: after a construction that failed and after a run that ended without
\* cancellation (success, report missing, test failure), with no signal
\* received, both signals have the handler that was installed before the
\* simulator was constructed.
C26_HandlersOnlyForLiveRun ==
    (/\ pc = "done" /\ hit = NoHit /\ frames = <<>>
     /\ \/ outcome = "ValueError" /\ init_raises(req)
        \/ outcome \in {"ok", "ReportMissing", "TestFailure"})
       => /\ handler[SIGINT] = old_sigint_h[nsims]
          /\ handler[SIGTERM] = old_sigterm_h[nsims]

\* C22: once a signal has entered the handler, the cancellation path
\* completes (the handler returns control by raising), also when the child
\* never exits in response to the kill.
C22_CancelCompletes == (frames # <<>>) ~> (frames = <<>>)

\* what ends a command of a script
CommandSeparators == {"\n", ";"}

\* C25: Questa's run script. With gui the simulator is started with -gui
\* and stop on finish and the script holds no run/quit instruction; without
\* gui it is started with -c and exit on finish and the script holds the
\* load command followed by the run-and-quit instruction as a command of
\* its own, separated from the load command's last argument.
C25_QuestaRunScript ==
    spc = "built"
       => IF skw.gui
          THEN /\ sargv[2] = "-gui"
               /\ Head(sscript) = "vsim -onfinish stop"
               /\ "run -all; quit" \notin SeqRange(sscript)
          ELSE /\ sargv[2] = "-c"
               /\ Head(sscript) = "vsim -onfinish exit"
               /\ \E k \in DOMAIN sscript :
                     /\ sscript[k] = "run -all; quit"
                     /\ k > 1
                     /\ sscript[k - 1] \in CommandSeparators

=============================================================================
